---- MODULE Spec2Model ----
(***************************************************************************)
(* Attendance verification pipeline of the attendance back end:            *)
(* submitAttendanceWithFaceVerification (attendanceController), the        *)
(* liveness / face comparison service (faceComparisonService.js) and the   *)
(* Attendance collection (attendanceModel.js).                             *)
(*                                                                         *)
(* Every `await` of a handler is a step of its own, so that requests       *)
(* interleave exactly where the Node.js event loop lets them interleave.   *)
(***************************************************************************)
EXTENDS Integers, Sequences, FiniteSets, TLC

----------------------------------------------------------------------------
(* Values *)

\* JavaScript null and a field that is not there (undefined).
Null == "null"
Absent == "absent"

\* faceComparisonService.js:30-31
SIMILARITY_THRESHOLD == 90
MIN_FACE_CONFIDENCE == 90

\* The clock (new Date()) runs from 0 to MaxTime.
MaxTime == 1

\* Students who upload a new face image.
MaxUploads == 1

\* Longest challengeImages array of a request body.
MaxLen == 3
MaxBatch == 3

\* Request slots: the requests that can be in flight together.  A slot whose
\* request has been answered is reused by a later request.
Reqs == {"r1", "r2"}
SyncReqs == {"y1", "y2"}

Students == {"s1", "s2", "s3"}
ClassIds == {"c1", "c2"}
SessionIds == {"q1", "q2"}

----------------------------------------------------------------------------
(* Images.  An image is named; ImageOf gives what Rekognition sees in it:  *)
(* the FaceDetails of DetectFaces and the similarity of the face to the    *)
(* caller's reference image.                                               *)

FaceDetails(n, c, ev, ec, sv, sc, yaw, pitch, b, s, sim) ==
  [FaceCount |-> n, Confidence |-> c,
   EyesOpenValue |-> ev, EyesOpenConfidence |-> ec,
   SmileValue |-> sv, SmileConfidence |-> sc,
   Yaw |-> yaw, Pitch |-> pitch,
   Brightness |-> b, Sharpness |-> s, Similarity |-> sim]

ImageOf(name) ==
  CASE name = "good"     -> FaceDetails(1, 99, TRUE, 95, TRUE, 95, 0, 0, 80, 80, 95)
    [] name = "serious"  -> FaceDetails(1, 99, TRUE, 95, FALSE, 10, 0, 0, 80, 80, 95)
    [] name = "right"    -> FaceDetails(1, 99, TRUE, 95, FALSE, 10, 35, 0, 80, 80, 95)
    [] name = "noface"   -> FaceDetails(0, 0, FALSE, 0, FALSE, 0, 0, 0, 0, 0, 0)
    [] name = "crowd"    -> FaceDetails(2, 99, TRUE, 95, TRUE, 95, 0, 0, 80, 80, 95)
    [] name = "dark"     -> FaceDetails(1, 99, TRUE, 95, TRUE, 95, 0, 0, 10, 80, 95)
    [] name = "stranger" -> FaceDetails(1, 99, TRUE, 95, TRUE, 95, 0, 0, 80, 80, 40)
    [] name = "alike90"  -> FaceDetails(1, 99, TRUE, 95, TRUE, 95, 0, 0, 80, 80, 90)
    [] name = "alike89"  -> FaceDetails(1, 99, TRUE, 95, TRUE, 95, 0, 0, 80, 80, 89)
    [] name = "faint"    -> FaceDetails(1, 50, TRUE, 95, TRUE, 95, 0, 0, 80, 80, 95)
    [] name = "blurry"   -> FaceDetails(1, 99, TRUE, 95, TRUE, 95, 0, 0, 80, 10, 95)
    [] name = "frown"    -> FaceDetails(1, 99, TRUE, 95, FALSE, 95, 0, 0, 80, 80, 95)
    [] name = "asleep"   -> FaceDetails(1, 99, FALSE, 95, TRUE, 95, 0, 0, 80, 80, 95)

ImageNames == {"good", "serious", "right", "noface", "crowd", "dark", "stranger",
               "alike90", "alike89", "faint", "blurry", "frown", "asleep"}

ChallengeTypes == {"neutral", "smile", "turn_left", "turn_right", "eyes_open", "look_up"}

----------------------------------------------------------------------------
(* faceComparisonService.js, the synchronous part of each function: what   *)
(* it makes of a Rekognition response.                                     *)

NoIndicators ==
  [eyesOpen |-> FALSE, eyesOpenConfidence |-> 0, smile |-> FALSE,
   smileConfidence |-> 0, pitch |-> 0, yaw |-> 0, brightness |-> 0,
   sharpness |-> 0, faceConfidence |-> 0]

\* detectFaceWithAttributes, lines 51-126, applied to response.FaceDetails
detectFaceWithAttributes(face) ==
  LET livenessIndicators ==
        [eyesOpen |-> face.EyesOpenValue /\ face.EyesOpenConfidence > 80,
         eyesOpenConfidence |-> face.EyesOpenConfidence,
         smile |-> face.SmileValue,
         smileConfidence |-> face.SmileConfidence,
         pitch |-> face.Pitch, yaw |-> face.Yaw,
         brightness |-> face.Brightness, sharpness |-> face.Sharpness,
         faceConfidence |-> face.Confidence]
  IN
  IF face.FaceCount = 0 THEN
    [success |-> FALSE, reason |-> "NO_FACE_DETECTED",
     message |-> <<"No face detected in the image. Please position your face clearly.">>,
     livenessIndicators |-> NoIndicators]
  ELSE IF face.FaceCount > 1 THEN
    [success |-> FALSE, reason |-> "MULTIPLE_FACES",
     message |-> <<"Multiple faces detected. Please ensure only your face is visible.">>,
     livenessIndicators |-> NoIndicators]
  ELSE IF face.Confidence < MIN_FACE_CONFIDENCE THEN
    [success |-> FALSE, reason |-> "LOW_CONFIDENCE",
     message |-> <<"Face not clearly visible. Please improve lighting and try again.">>,
     livenessIndicators |-> NoIndicators]
  ELSE IF livenessIndicators.brightness < 20 THEN
    [success |-> FALSE, reason |-> "LOW_BRIGHTNESS",
     message |-> <<"Image too dark. Please improve lighting.">>,
     livenessIndicators |-> livenessIndicators]
  ELSE IF livenessIndicators.sharpness < 20 THEN
    [success |-> FALSE, reason |-> "LOW_SHARPNESS",
     message |-> <<"Image blurry. Please hold steady and try again.">>,
     livenessIndicators |-> livenessIndicators]
  ELSE
    [success |-> TRUE, reason |-> Absent,
     message |-> <<"Face detected successfully">>,
     livenessIndicators |-> livenessIndicators]

\* the switch of validateLivenessChallenge, lines 162-212
challengePassed(indicators, challengeType) ==
  CASE challengeType = "eyes_open" ->
         indicators.eyesOpen \/ indicators.eyesOpenConfidence > 50
    [] challengeType = "smile" ->
         indicators.smile \/ indicators.smileConfidence > 30
    [] challengeType = "turn_left" -> indicators.yaw < 20
    [] challengeType = "turn_right" -> indicators.yaw > -20
    [] challengeType = "look_up" -> indicators.pitch > -10
    [] OTHER -> indicators.eyesOpen \/ indicators.faceConfidence > 80

challengeMessage(indicators, challengeType, passed) ==
  CASE challengeType = "eyes_open" ->
         IF passed THEN <<"Eyes open detected">> ELSE <<"Please open your eyes wide">>
    [] challengeType = "smile" ->
         IF passed THEN <<"Smile detected">> ELSE <<"Please smile at the camera">>
    [] challengeType = "turn_left" ->
         IF passed THEN <<"Left turn detected">>
         ELSE <<"Please turn your head to the left (current: ", ToString(indicators.yaw), ")">>
    [] challengeType = "turn_right" ->
         IF passed THEN <<"Right turn detected">>
         ELSE <<"Please turn your head to the right (current: ", ToString(indicators.yaw), ")">>
    [] challengeType = "look_up" ->
         IF passed THEN <<"Look up detected">> ELSE <<"Please look slightly upward">>
    [] OTHER ->
         IF passed THEN <<"Neutral face detected">>
         ELSE <<"Please look straight at the camera">>

\* validateLivenessChallenge that evaluates the challenge whatever the
\* detection said
validateLivenessChallenge_gatesIgnored(face, challengeType) ==
  LET detectionResult == detectFaceWithAttributes(face)
      indicators == detectionResult.livenessIndicators
      passed == challengePassed(indicators, challengeType)
  IN [success |-> passed, reason |-> Absent,
      message |-> challengeMessage(indicators, challengeType, passed),
      livenessIndicators |-> indicators]

\* validateLivenessChallenge, lines 142-222, applied to the detection's answer
validateLivenessChallenge(face, challengeType) ==
  LET detectionResult == detectFaceWithAttributes(face)
      indicators == detectionResult.livenessIndicators
      passed == challengePassed(indicators, challengeType)
  IN
  IF ~detectionResult.success THEN detectionResult
  ELSE [success |-> passed, reason |-> Absent,
        message |-> challengeMessage(indicators, challengeType, passed),
        livenessIndicators |-> indicators]

\* Rekognition CompareFaces: FaceMatches holds the faces whose similarity is
\* at least the SimilarityThreshold of the command (lines 248-261).
FaceMatches(face, threshold) ==
  IF face.Similarity >= threshold THEN <<face.Similarity>> ELSE << >>

----------------------------------------------------------------------------
(* State *)

VARIABLES
  reqs,      \* the request of each slot: body, position, locals, response
  syncs,     \* the sync request of each slot
  other,     \* the request to one of the other routes, and its response
  validated, \* the (caller, classId) pairs validateQRCode answered valid for
  ledger,    \* the Attendance collection, in insertion order (_id = index)
  sessions,  \* the QRCodeSession collection
  users,     \* the User collection
  now,       \* the clock
  workload   \* which requests the clients send, fixed at Init: one at a time
             \* (sequential), two submissions together (concurrent), two sync
             \* requests together (syncing), a submission and a sync (mixed),
             \* a submission and requests to the other routes (auxiliary)

vars == <<reqs, syncs, other, validated, ledger, sessions, users, now, workload>>

\* studentCoordinates of a request body
Coordinates(lat, long) == [present |-> TRUE, latitude |-> lat, longitude |-> long]
NoCoordinates == [present |-> FALSE, latitude |-> 0, longitude |-> 0]

Challenge(type, image) == [challengeType |-> type, image |-> image]

\* challengeImages arrays of the request bodies
ChallengePairs ==
  {Challenge("neutral", "good"), Challenge("smile", "serious"),
   Challenge("eyes_open", "dark")}

\* every challenge passes, the face of the last image is not the caller's
StrangerList == <<Challenge("neutral", "good"), Challenge("neutral", "stranger")>>

\* every challenge passes, the similarity of the last image is the threshold
\* or one below it
BoundaryLists ==
  {<<Challenge("neutral", "good"), Challenge("neutral", image)>> :
     image \in {"alike90", "alike89"}}

\* the second image fails one of the gates of detectFaceWithAttributes
GateLists ==
  {<<Challenge("neutral", "good"), Challenge("smile", image)>> :
     image \in {"noface", "crowd", "faint", "dark", "blurry"}}

\* lists a client can make up: a face that does not smile (with confidence)
\* for smile, closed eyes for eyes_open, a turned head for neutral, and a
\* challenge type the server does not know
ClientLists ==
  {<<Challenge("neutral", "good"), Challenge("smile", "frown")>>,
   <<Challenge("neutral", "good"), Challenge("eyes_open", "asleep")>>,
   <<Challenge("neutral", "right"), Challenge("neutral", "good")>>,
   <<Challenge("neutral", "good"), Challenge("wink", "good")>>}

SeqsUpTo(S, n) == UNION {[1..k -> S] : k \in 0..n}

Body(classId, coords, images) ==
  [classId |-> classId, studentCoordinates |-> coords, challengeImages |-> images]

\* One request at a time: every challenge list for the class in session, and
\* every way of leaving out the class, the coordinates or the images.
SequentialBodies ==
  {Body("c1", Coordinates(18, 73), l) :
     l \in SeqsUpTo(ChallengePairs, MaxLen) \cup {StrangerList} \cup BoundaryLists
           \cup GateLists \cup ClientLists}
  \cup
  {Body(c, xy, l) : c \in ClassIds \cup {Absent},
                    xy \in {Coordinates(18, 73), Coordinates(0, 73), NoCoordinates},
                    l \in SeqsUpTo({Challenge("neutral", "good")}, 2)}

\* Requests in flight together: well-formed bodies for the class in session.
ConcurrentBodies ==
  {Body("c1", Coordinates(18, 73), l) :
     l \in {<<Challenge("neutral", "good"), Challenge("smile", "good")>>,
            <<Challenge("neutral", "good"), Challenge("smile", "serious")>>}}

\* A request in flight together with a sync request: every challenge passes.
MixedBodies ==
  {Body("c1", Coordinates(18, 73),
        <<Challenge("neutral", "good"), Challenge("smile", "good")>>)}

Bodies(w) ==
  CASE w = "sequential" -> SequentialBodies
    [] w = "concurrent" -> ConcurrentBodies
    [] w \in {"mixed", "auxiliary"} -> MixedBodies

\* req.user.id, set by the protect middleware
Callers(w) ==
  CASE w = "sequential" -> Students
    [] w = "concurrent" -> {"s1", "s2"}
    [] w \in {"mixed", "auxiliary"} -> {"s1"}

NoRes ==
  [status |-> 0, success |-> FALSE, reason |-> Absent, message |-> << >>,
   challengeResults |-> << >>, attendanceId |-> 0, livenessScore |-> 0,
   faceSimilarity |-> 0]

Res(status, message) == [NoRes EXCEPT !.status = status, !.message = message]

IdleReq ==
  [pc |-> "idle", studentId |-> Absent, body |-> Body(Absent, NoCoordinates, << >>),
   qrSession |-> Absent, faceImageS3Key |-> Absent, challengeResults |-> << >>,
   similarity |-> 0, livenessScore |-> 0, calls |-> << >>,
   attendanceRecord |-> Absent, error |-> Absent, errorName |-> Absent,
   res |-> NoRes]

Answer(q, res) == [q EXCEPT !.pc = "done", !.res = res]

\* a call sent to Rekognition
Call(q, op, image) == [q EXCEPT !.calls = Append(@, [op |-> op, image |-> image])]

\* an element of req.body.attendances of POST /sync; the client has put the
\* studentId of another student into it
SyncRecord(sessionId, classId, livenessPassed) ==
  [studentId |-> "s2",
   sessionId |-> sessionId, classId |-> classId, scheduleId |-> Absent,
   studentCoordinates |-> Coordinates(18, 73), livenessPassed |-> livenessPassed,
   timestamp |-> 0]

\* The records a client has buffered: one for each session, and one that
\* lacks its classId.
SyncRecords ==
  {SyncRecord("q1", "c1", TRUE), SyncRecord("q2", "c2", TRUE),
   SyncRecord("q2", Absent, TRUE)}

\* req.body.attendances
Batches(w) ==
  IF w = "sequential" THEN SeqsUpTo(SyncRecords, MaxBatch)
  ELSE {<<SyncRecord("q1", "c1", TRUE)>>,
        <<SyncRecord("q2", "c2", TRUE), SyncRecord("q1", "c1", TRUE)>>,
        <<SyncRecord("q2", "c2", FALSE)>>}

\* req.user.id of the sync requests
SyncCallers(w) == {"s1"}

NoSyncRes == [status |-> 0, message |-> << >>, results |-> << >>]

SyncRes(status, message, results) ==
  [status |-> status, message |-> message, results |-> results]

IdleSync ==
  [pc |-> "idle", studentId |-> Absent, attendances |-> << >>,
   syncResults |-> << >>, error |-> Absent, res |-> NoSyncRes]

\* req.body.token of POST /api/qr/validate
Tokens == {"t1", "t2", "t9", Absent}

\* req.params.id of updateAttendance: the _id of a record or of none
RecordIds == {1, 2}

\* req.body.status of updateAttendance
Statuses == {"present", "absent", "late", "excused"}

NoOtherRes ==
  [status |-> 0, message |-> << >>, valid |-> FALSE, isActive |-> FALSE,
   sessionId |-> Absent, classId |-> Absent, totalRecords |-> 0,
   challenges |-> << >>]

OtherRes(status, message) ==
  [NoOtherRes EXCEPT !.status = status, !.message = message]

\* req.headers.authorization: none, another scheme, Bearer without a token,
\* an invalid token, the valid token of user s1, the valid token of the
\* deleted user s3
Authorizations ==
  {Absent, "Basic abc", "Bearer", "Bearer bad", "Bearer jwt-s1", "Bearer jwt-s3"}

IdleOther ==
  [pc |-> "idle", op |-> Absent, studentId |-> Absent, token |-> Absent,
   classId |-> Absent, id |-> 0, status |-> Absent, error |-> Absent,
   res |-> NoOtherRes, authorization |-> Absent, responses |-> << >>,
   nextCalls |-> 0]

\* the ClassEnrollment collection: s1 is enrolled in c1
ClassEnrollment == {<<"s1", "c1">>}

Init ==
  /\ workload \in {"sequential", "concurrent", "syncing", "mixed", "auxiliary"}
  /\ other = IdleOther
  /\ validated = {}
  /\ reqs = [r \in Reqs |-> IdleReq]
  /\ syncs = [y \in SyncReqs |-> IdleSync]
  /\ ledger = << >>
  /\ sessions = [q \in SessionIds |->
       IF q = "q1"
       THEN [classId |-> "c1", isActive |-> TRUE, sessionExpiresAt |-> 1,
             scheduleId |-> "sch1", currentToken |-> "t1"]
       ELSE [classId |-> "c2", isActive |-> FALSE, sessionExpiresAt |-> 2,
             scheduleId |-> "sch2", currentToken |-> "t2"]]
  /\ users = [s \in {"s1", "s2"} |->
       [faceImageS3Key |-> IF s = "s1" THEN "faces/s1.jpg" ELSE Null]]
  /\ now = 0

----------------------------------------------------------------------------
(* attendanceModel.js *)

SchemaPaths ==
  {"studentId", "sessionId", "classId", "scheduleId", "studentCoordinates",
   "timestamp", "livenessPassed", "faceEmbedding", "synced", "syncVersion",
   "manualEntry", "notes"}

SchemaDefault(path) ==
  CASE path = "synced" -> FALSE
    [] path = "manualEntry" -> FALSE
    [] path = "syncVersion" -> 1
    [] path = "notes" -> ""
    [] path = "faceEmbedding" -> << >>
    [] OTHER -> Absent

\* new Attendance(obj): the schema is strict, a key of obj that is not a path
\* of the schema is dropped, a missing path takes its default.
Attendance(obj) ==
  [path \in SchemaPaths |->
     IF path \in DOMAIN obj THEN obj[path] ELSE SchemaDefault(path)]

\* save that stores the document twice
save_twice(docs, doc) == Append(Append(docs, doc), doc)

\* doc.save(): the collection has no unique index, every insert is stored.
save(docs, doc) == Append(docs, doc)

\* Attendance.findOne({studentId, sessionId})
findAttendance(docs, studentId, sessionId) ==
  {i \in DOMAIN docs : docs[i].studentId = studentId /\ docs[i].sessionId = sessionId}

\* the session query without its isActive condition
findActiveSession_anyUnexpired(classId) ==
  {q \in SessionIds : /\ sessions[q].classId = classId
                      /\ sessions[q].sessionExpiresAt > now}

\* QRCodeSession.findOne({classId, isActive: true, sessionExpiresAt: {$gt: new Date()}})
findActiveSession(classId) ==
  {q \in SessionIds : /\ sessions[q].classId = classId
                      /\ sessions[q].isActive
                      /\ sessions[q].sessionExpiresAt > now}

----------------------------------------------------------------------------
(* submitAttendanceWithFaceVerification, attendanceController lines 821-989 *)

\* !studentCoordinates?.latitude || !studentCoordinates?.longitude
coordinatesMissing(xy) == ~xy.present \/ xy.latitude = 0 \/ xy.longitude = 0

\* the input validation with the image count checked first
inputValidation_imagesFirst(q) ==
  IF Len(q.body.challengeImages) < 2 THEN
    Answer(q, Res(400, <<"At least 2 challenge images are required.">>))
  ELSE IF q.body.classId = Absent THEN
    Answer(q, Res(400, <<"Class ID is required.">>))
  ELSE IF coordinatesMissing(q.body.studentCoordinates) THEN
    Answer(q, Res(400, <<"Student coordinates are required.">>))
  ELSE [q EXCEPT !.pc = "findSession"]

\* lines 824-850: the checks made before the first await
inputValidation(q) ==
  IF q.body.classId = Absent THEN
    Answer(q, Res(400, <<"Class ID is required.">>))
  ELSE IF coordinatesMissing(q.body.studentCoordinates) THEN
    Answer(q, Res(400, <<"Student coordinates are required.">>))
  ELSE IF Len(q.body.challengeImages) < 2 THEN
    Answer(q, Res(400, <<"At least 2 challenge images are required.">>))
  ELSE [q EXCEPT !.pc = "findSession"]

\* lines 861-868, qrSession being the answer of QRCodeSession.findOne
sessionCheck(q, qrSession) ==
  IF qrSession = Null THEN
    Answer(q, Res(400, <<"No active attendance session. QR code may have expired.">>))
  ELSE [q EXCEPT !.pc = "findExisting", !.qrSession = qrSession]

\* the duplicate check that lets an existing record pass
duplicateCheck_skipped(q, existingAttendance) == [q EXCEPT !.pc = "findUser"]

\* lines 876-883, existingAttendance being the answer of Attendance.findOne
duplicateCheck(q, existingAttendance) ==
  IF existingAttendance THEN
    Answer(q, Res(409, <<"Attendance already marked for this session.">>))
  ELSE [q EXCEPT !.pc = "findUser"]

\* lines 906-911
processedChallenges(challengeImages) ==
  [i \in DOMAIN challengeImages |->
     [challengeType |-> challengeImages[i].challengeType,
      imageBytes |-> challengeImages[i].image]]

\* the profile check followed by the detections of all images sent at once
profileCheck_dispatchAll(q, found, faceImageS3Key) ==
  LET images == processedChallenges(q.body.challengeImages) IN
  IF ~found THEN
    Answer(q, Res(404, <<"Student not found.">>))
  ELSE IF faceImageS3Key = Null THEN
    Answer(q, Res(400, <<"No profile photo registered. Please upload your face photo first.">>))
  ELSE [q EXCEPT !.pc = "challenge", !.faceImageS3Key = faceImageS3Key,
                 !.calls = [i \in DOMAIN images |->
                              [op |-> "DetectFaces", image |-> images[i].imageBytes]]]

\* the profile check without the test of faceImageS3Key
profileCheck_noKeyCheck(q, found, faceImageS3Key) ==
  IF ~found THEN
    Answer(q, Res(404, <<"Student not found.">>))
  ELSE Call([q EXCEPT !.pc = "challenge", !.faceImageS3Key = faceImageS3Key],
            "DetectFaces", q.body.challengeImages[1].image)

\* lines 888-917, found/faceImageS3Key being the answer of User.findById;
\* verifyLivenessWithChallenges then sends its first DetectFaces
profileCheck(q, found, faceImageS3Key) ==
  IF ~found THEN
    Answer(q, Res(404, <<"Student not found.">>))
  ELSE IF faceImageS3Key = Null THEN
    Answer(q, Res(400, <<"No profile photo registered. Please upload your face photo first.">>))
  ELSE Call([q EXCEPT !.pc = "challenge", !.faceImageS3Key = faceImageS3Key],
            "DetectFaces", processedChallenges(q.body.challengeImages)[1].imageBytes)

\* the errorMessages table, lines 922-939
errorMessages(reason, message) ==
  CASE reason = "NO_FACE_DETECTED" -> <<"No face detected. Please position your face clearly.">>
    [] reason = "MULTIPLE_FACES" -> <<"Multiple faces detected. Only your face should be visible.">>
    [] reason = "LOW_CONFIDENCE" -> <<"Face not clear. Please improve lighting.">>
    [] reason = "FACE_NOT_FRONTAL" -> <<"Please face the camera directly.">>
    [] reason = "LOW_BRIGHTNESS" -> <<"Image too dark. Please improve lighting.">>
    [] reason = "LOW_SHARPNESS" -> <<"Image blurry. Please hold steady.">>
    [] reason = "LIVENESS_CHALLENGES_FAILED" -> message
    [] reason = "FACE_NOT_MATCHED" -> <<"Face does not match your registered profile.">>
    [] reason = "PROFILE_IMAGE_NOT_FOUND" -> <<"Profile image not found. Please re-upload your photo.">>
    [] reason = "INVALID_IMAGE" -> <<"Invalid image captured. Please try again.">>
    [] OTHER -> message

\* lines 919-941: verificationResult.success is false
verificationFailed(q, reason, message) ==
  Answer(q, [Res(400, errorMessages(reason, message)) EXCEPT
               !.reason = reason, !.challengeResults = q.challengeResults])

\* the catch of the handler, lines 980-988
unexpectedError(q) ==
  Answer(q, Res(500, <<"An unexpected error occurred. Please try again.">>))

----------------------------------------------------------------------------
(* verifyLivenessWithChallenges, faceComparisonService.js lines 313-373 *)

\* the failed challenges, last one first
failedChallenges_lastFirst(challengeResults) ==
  LET failed == SelectSeq(challengeResults, LAMBDA c : ~c.passed)
  IN [i \in 1..Len(failed) |-> failed[Len(failed) + 1 - i]]

\* lines 334-342
failedChallenges(challengeResults) ==
  SelectSeq(challengeResults, LAMBDA c : ~c.passed)

\* the loop with a break at the first failing challenge
loopContinues_untilFailure(results, challengeImages) ==
  /\ Len(results) < Len(challengeImages)
  /\ \A i \in DOMAIN results : results[i].passed

\* After the result of challenge number Len(results): does the for loop of
\* lines 321-332 go on to the next image?
loopContinues(results, challengeImages) ==
  Len(results) < Len(challengeImages)

\* lines 322-348: result is what validateLivenessChallenge returned for the
\* image the loop is at
challengeReturned(q, result) ==
  LET images == processedChallenges(q.body.challengeImages)
      i == Len(q.challengeResults) + 1
      results == Append(q.challengeResults,
                        [challengeType |-> images[i].challengeType,
                         passed |-> result.success,
                         message |-> result.message])
      q1 == [q EXCEPT !.challengeResults = results]
  IN
  IF loopContinues(results, images) THEN
    Call(q1, "DetectFaces", images[i + 1].imageBytes)
  ELSE IF failedChallenges(results) # << >> THEN
    verificationFailed(q1, "LIVENESS_CHALLENGES_FAILED",
      <<"Liveness check failed: ">> \o failedChallenges(results)[1].message)
  ELSE
    \* compareFaceWithProfile detects the face of the last image first
    Call([q1 EXCEPT !.pc = "compareDetect"], "DetectFaces",
         images[Len(images)].imageBytes)

\* the comparison sent for the first image instead of the last
compareDetected_firstImage(q, detectionResult) ==
  LET images == processedChallenges(q.body.challengeImages) IN
  IF ~detectionResult.success THEN
    verificationFailed(q, detectionResult.reason, detectionResult.message)
  ELSE Call([q EXCEPT !.pc = "compareFaces"], "CompareFaces", images[1].imageBytes)

\* compareFaceWithProfile lines 241-261, verifyLivenessWithChallenges 350-357
compareDetected(q, detectionResult) ==
  LET images == processedChallenges(q.body.challengeImages) IN
  IF ~detectionResult.success THEN
    verificationFailed(q, detectionResult.reason, detectionResult.message)
  ELSE Call([q EXCEPT !.pc = "compareFaces"], "CompareFaces",
            images[Len(images)].imageBytes)

\* lines 950-962 of the handler: the document that is then saved
attendanceRecord(q, similarity, livenessScore) ==
  Attendance([studentId |-> q.studentId,
              classId |-> q.body.classId,
              sessionId |-> q.qrSession,
              scheduleId |-> sessions[q.qrSession].scheduleId,
              studentCoordinates |-> q.body.studentCoordinates,
              status |-> "present",
              livenessPassed |-> TRUE,
              livenessConfidence |-> livenessScore,
              faceSimilarity |-> similarity,
              timestamp |-> now,
              manualEntry |-> FALSE])

\* the comparison that wants a similarity above the threshold
compareReturned_aboveThreshold(q, matches) ==
  IF Len(matches) > 0 /\ matches[1] > SIMILARITY_THRESHOLD THEN
    [q EXCEPT !.pc = "save", !.similarity = matches[1], !.livenessScore = 100,
              !.attendanceRecord = attendanceRecord(q, matches[1], 100)]
  ELSE
    verificationFailed(q, "FACE_NOT_MATCHED",
                       <<"Face does not match your registered profile.">>)

\* compareFaceWithProfile lines 263-281, verifyLivenessWithChallenges 350-367,
\* handler lines 943-964
compareReturned(q, matches) ==
  IF Len(matches) > 0 THEN
    [q EXCEPT !.pc = "save", !.similarity = matches[1], !.livenessScore = 100,
              !.attendanceRecord = attendanceRecord(q, matches[1], 100)]
  ELSE
    verificationFailed(q, "FACE_NOT_MATCHED",
                       <<"Face does not match your registered profile.">>)

\* every error of Rekognition rethrown, none turned into a result
oracleThrew_allRethrown(q, errorName) == unexpectedError(q)

\* an error of CompareFaces taken for a match
oracleThrew_failOpen(q, errorName) ==
  IF q.pc = "compareFaces" THEN compareReturned(q, <<100>>) ELSE unexpectedError(q)

\* Rekognition throws while the request waits for it.  detectFaceWithAttributes
\* rethrows every error as Error (lines 128-131); compareFaceWithProfile turns
\* two names of error into results and rethrows the others (lines 283-303).
oracleThrew(q, errorName) ==
  IF q.pc = "compareFaces" /\ errorName = "InvalidS3ObjectException" THEN
    verificationFailed(q, "PROFILE_IMAGE_NOT_FOUND",
                       <<"Profile image not found. Please re-upload your photo.">>)
  ELSE IF q.pc = "compareFaces" /\ errorName = "InvalidParameterException" THEN
    verificationFailed(q, "INVALID_IMAGE",
                       <<"Invalid image. Please capture a clear photo of your face.">>)
  ELSE unexpectedError(q)

ErrorNames == {"InvalidS3ObjectException", "InvalidParameterException",
               "ThrottlingException"}

\* lines 964-978: the save has succeeded
saved(q, attendanceId) ==
  Answer(q, [Res(201, <<"Attendance marked successfully!">>) EXCEPT
               !.success = TRUE, !.attendanceId = attendanceId,
               !.livenessScore = q.livenessScore,
               !.faceSimilarity = q.similarity])

----------------------------------------------------------------------------
(* syncAttendance, attendanceController lines 225-271 *)

\* the record the for loop of line 235 is at
recordAt(q) == q.attendances[Len(q.syncResults) + 1]

\* lines 231-233
batchValidation(q) ==
  IF Len(q.attendances) = 0 THEN
    [q EXCEPT !.pc = "done",
              !.res = SyncRes(400, <<"No attendance records to sync.">>, << >>)]
  ELSE [q EXCEPT !.pc = "findExisting"]

\* an outcome is pushed (lines 241, 260): the loop goes on to the next
\* record, or the response of lines 263-266 is sent
outcomePushed(q, outcome) ==
  LET syncResults == Append(q.syncResults, outcome) IN
  IF Len(syncResults) < Len(q.attendances)
  THEN [q EXCEPT !.pc = "findExisting", !.syncResults = syncResults]
  ELSE [q EXCEPT !.pc = "done", !.syncResults = syncResults,
                 !.res = SyncRes(200, <<"Sync completed.">>, syncResults)]

\* the check of existing that lets every record through
existingChecked_neverSkipped(q, existing) == [q EXCEPT !.pc = "save"]

\* lines 238-243, existing being the answer of Attendance.findOne
existingChecked(q, existing) ==
  IF existing THEN
    outcomePushed(q, [sessionId |-> recordAt(q).sessionId, status |-> "skipped",
                      message |-> <<"Already exists.">>])
  ELSE [q EXCEPT !.pc = "save"]

\* the document made with the studentId of the payload
newRecord_payloadStudentId(q) ==
  LET record == recordAt(q) IN
  Attendance([studentId |-> record.studentId,
              sessionId |-> record.sessionId,
              classId |-> record.classId,
              scheduleId |-> record.scheduleId,
              studentCoordinates |-> record.studentCoordinates,
              livenessPassed |-> record.livenessPassed,
              timestamp |-> record.timestamp,
              synced |-> TRUE,
              notes |-> " Synced from offline data"])

\* lines 245-256
newRecord(q) ==
  LET record == recordAt(q) IN
  Attendance([studentId |-> q.studentId,
              sessionId |-> record.sessionId,
              classId |-> record.classId,
              scheduleId |-> record.scheduleId,
              studentCoordinates |-> record.studentCoordinates,
              livenessPassed |-> record.livenessPassed,
              timestamp |-> record.timestamp,
              synced |-> TRUE,
              notes |-> " Synced from offline data"])

\* the validation of save(): studentId and classId are required paths
\* (attendanceModel.js lines 4-18)
requiredPaths(doc) == doc.studentId # Absent /\ doc.classId # Absent

\* line 260
recordSaved(q) ==
  outcomePushed(q, [sessionId |-> recordAt(q).sessionId, status |-> "success",
                    message |-> << >>])

\* the catch of lines 268-271: the loop is left, the response has no results
syncFailed(q, message) ==
  [q EXCEPT !.pc = "done", !.res = SyncRes(500, message, << >>)]

----------------------------------------------------------------------------
(* authMiddleware.js: protect, lines 14-44 *)

\* req.headers.authorization.startsWith('Bearer')
startsWithBearer(authorization) ==
  authorization \in {"Bearer", "Bearer bad", "Bearer jwt-s1", "Bearer jwt-s3"}

\* req.headers.authorization.split(' ')[1], Absent for undefined
bearerToken(authorization) ==
  CASE authorization = "Bearer bad" -> "bad"
    [] authorization = "Bearer jwt-s1" -> "jwt-s1"
    [] authorization = "Bearer jwt-s3" -> "jwt-s3"
    [] OTHER -> Absent

\* jwt.verify(token, secret): the id of the payload, Null when it throws
jwtVerify(token) ==
  CASE token = "jwt-s1" -> "s1"
    [] token = "jwt-s3" -> "s3"
    [] OTHER -> Null

Unauthorized(message) == [status |-> 401, message |-> message]

\* protect: what it has sent and how often it has called next() when it
\* returns.  userIds are the _ids of the User collection, threw says that
\* User.findById threw.
protect(authorization, userIds, threw) ==
  LET token == IF authorization # Absent /\ startsWithBearer(authorization)
               THEN bearerToken(authorization) ELSE Absent
      decoded == jwtVerify(token)
      none == [user |-> Absent, responses |-> << >>, nextCalls |-> 0]
      \* lines 17-39
      inside ==
        IF ~(authorization # Absent /\ startsWithBearer(authorization)) THEN
          [returned |-> FALSE, out |-> none]
        ELSE IF decoded = Null \/ threw THEN
          [returned |-> FALSE,
           out |-> [none EXCEPT
                      !.responses = <<Unauthorized("Not authorized, token failed")>>]]
        ELSE IF decoded \notin userIds THEN
          [returned |-> TRUE,
           out |-> [none EXCEPT !.responses = <<Unauthorized("User not found")>>]]
        ELSE [returned |-> FALSE,
              out |-> [none EXCEPT !.user = decoded, !.nextCalls = 1]]
  IN
  \* lines 41-43
  IF ~inside.returned /\ token = Absent
  THEN [inside.out EXCEPT
          !.responses = Append(@, Unauthorized("Not authorized, no token"))]
  ELSE inside.out

----------------------------------------------------------------------------
(* qrController: validateQRCode and getSessionStatus, part_006 lines 687-786 *)

\* QRCodeSession.findOne({currentToken: token, isActive: true,
\*                        sessionExpiresAt: {$gt: new Date()}})
findSessionByToken(token) ==
  {q \in SessionIds : /\ sessions[q].currentToken = token
                      /\ sessions[q].isActive
                      /\ sessions[q].sessionExpiresAt > now}

\* lines 689-744, session being the answer of QRCodeSession.findOne
validateQRCode(token, session) ==
  IF token = Absent THEN OtherRes(400, <<"QR token is required">>)
  ELSE IF session = Null THEN OtherRes(400, <<"Invalid or expired QR code">>)
  ELSE [OtherRes(200, << >>) EXCEPT !.valid = TRUE, !.sessionId = session,
                                    !.classId = sessions[session].classId]

\* lines 759-781, activeSession being the answer of QRCodeSession.findOne
getSessionStatus(activeSession) ==
  IF activeSession # Null THEN
    [OtherRes(200, <<"An attendance session is currently active.">>) EXCEPT
       !.isActive = TRUE, !.sessionId = activeSession,
       !.classId = sessions[activeSession].classId]
  ELSE OtherRes(200, <<"No active attendance session found for this class.">>)

----------------------------------------------------------------------------
(* updateAttendance, attendanceController lines 623-643 *)

\* Mongoose casts an update by the schema: the schema is strict, a key of
\* the update that is not a path of the schema is dropped.
castUpdate(update) ==
  [path \in DOMAIN update \cap SchemaPaths |-> update[path]]

\* Attendance.findByIdAndUpdate(id, update, {new: true}), line 632
findByIdAndUpdate(docs, id, update) ==
  [docs EXCEPT ![id] =
     [path \in DOMAIN docs[id] \cup DOMAIN castUpdate(update) |->
        IF path \in DOMAIN castUpdate(update) THEN castUpdate(update)[path]
        ELSE docs[id][path]]]

\* lines 628-630
statusValid(status) == status \in {"present", "absent", "late"}

\* lines 628-638: the response
updateAttendance(docs, id, status) ==
  IF ~statusValid(status) THEN OtherRes(400, <<"Invalid status.">>)
  ELSE IF id \notin DOMAIN docs THEN OtherRes(404, <<"Record not found.">>)
  ELSE OtherRes(200, << >>)

----------------------------------------------------------------------------
(* Steps *)

OraclePcs == {"challenge", "compareDetect", "compareFaces"}
LedgerPcs == {"findSession", "findExisting", "findUser", "save"}

\* POST /api/student/attendance/verify arrives (attendanceRoutes.js:38)
Submit(r) ==
  /\ reqs[r].pc = "idle"
  /\ workload = "sequential" => r = "r1" /\ \A y \in SyncReqs : syncs[y].pc = "idle"
  /\ workload # "syncing"
  /\ workload \in {"mixed", "auxiliary"} => r = "r1"
  /\ \E studentId \in Callers(workload), body \in Bodies(workload) :
       reqs' = [reqs EXCEPT ![r] =
                  inputValidation([IdleReq EXCEPT !.studentId = studentId,
                                                  !.body = body])]
  /\ UNCHANGED <<syncs, other, validated, ledger, sessions, users, now, workload>>

\* the response has been sent, the slot serves the next request
Finish(r) ==
  /\ reqs[r].pc = "done"
  /\ reqs' = [reqs EXCEPT ![r] = IdleReq]
  /\ UNCHANGED <<syncs, other, validated, ledger, sessions, users, now, workload>>

\* QRCodeSession.findOne answers (lines 855-868)
FindSession(r) ==
  /\ reqs[r].pc = "findSession"
  /\ LET found == findActiveSession(reqs[r].body.classId) IN
       \E qrSession \in IF found = {} THEN {Null} ELSE found :
         reqs' = [reqs EXCEPT ![r] = sessionCheck(@, qrSession)]
  /\ UNCHANGED <<syncs, other, validated, ledger, sessions, users, now, workload>>

\* Attendance.findOne answers (lines 871-883)
FindExisting(r) ==
  /\ reqs[r].pc = "findExisting"
  /\ reqs' = [reqs EXCEPT ![r] =
       duplicateCheck(@, findAttendance(ledger, @.studentId, @.qrSession) # {})]
  /\ UNCHANGED <<syncs, other, validated, ledger, sessions, users, now, workload>>

\* User.findById answers (lines 886-917)
FindUser(r) ==
  /\ reqs[r].pc = "findUser"
  /\ LET id == reqs[r].studentId IN
       reqs' = [reqs EXCEPT ![r] =
         profileCheck(@, id \in DOMAIN users,
                      IF id \in DOMAIN users THEN users[id].faceImageS3Key ELSE Null)]
  /\ UNCHANGED <<syncs, other, validated, ledger, sessions, users, now, workload>>

\* DetectFaces answers for the image the loop is at
ChallengeReturns(r) ==
  /\ reqs[r].pc = "challenge"
  /\ LET q == reqs[r]
         c == processedChallenges(q.body.challengeImages)[Len(q.challengeResults) + 1]
     IN reqs' = [reqs EXCEPT ![r] =
          challengeReturned(q, validateLivenessChallenge(ImageOf(c.imageBytes),
                                                         c.challengeType))]
  /\ UNCHANGED <<syncs, other, validated, ledger, sessions, users, now, workload>>

\* DetectFaces answers inside compareFaceWithProfile
CompareDetectReturns(r) ==
  /\ reqs[r].pc = "compareDetect"
  /\ LET q == reqs[r]
     IN reqs' = [reqs EXCEPT ![r] =
          compareDetected(q, detectFaceWithAttributes(
                               ImageOf(q.calls[Len(q.calls)].image)))]
  /\ UNCHANGED <<syncs, other, validated, ledger, sessions, users, now, workload>>

\* CompareFaces answers
CompareReturns(r) ==
  /\ reqs[r].pc = "compareFaces"
  /\ LET q == reqs[r]
     IN reqs' = [reqs EXCEPT ![r] =
          compareReturned(q, FaceMatches(ImageOf(q.calls[Len(q.calls)].image),
                                         SIMILARITY_THRESHOLD))]
  /\ UNCHANGED <<syncs, other, validated, ledger, sessions, users, now, workload>>

\* Rekognition answers with an error
OracleThrows(r) ==
  /\ reqs[r].pc \in OraclePcs
  /\ \E errorName \in ErrorNames :
       reqs' = [reqs EXCEPT ![r] = [oracleThrew(@, errorName) EXCEPT
                                      !.error = "oracle", !.errorName = errorName]]
  /\ UNCHANGED <<syncs, other, validated, ledger, sessions, users, now, workload>>

\* Rekognition never answers: the request stays at its await
OracleHangs(r) ==
  /\ reqs[r].pc \in OraclePcs
  /\ reqs' = [reqs EXCEPT ![r].pc = "hung", ![r].error = "timeout"]
  /\ UNCHANGED <<syncs, other, validated, ledger, sessions, users, now, workload>>

\* the save that reads the session again and rejects when it is over
Save_sessionRechecked(r) ==
  /\ reqs[r].pc = "save"
  /\ IF reqs[r].qrSession \in findActiveSession(reqs[r].body.classId)
     THEN /\ ledger' = save(ledger, reqs[r].attendanceRecord)
          /\ reqs' = [reqs EXCEPT ![r] = saved(@, Len(ledger'))]
     ELSE /\ ledger' = ledger
          /\ reqs' = [reqs EXCEPT ![r] = sessionCheck(@, Null)]
  /\ UNCHANGED <<syncs, other, validated, sessions, users, now, workload>>

\* attendanceRecord.save() succeeds (lines 964-978)
Save(r) ==
  /\ reqs[r].pc = "save"
  /\ ledger' = save(ledger, reqs[r].attendanceRecord)
  /\ reqs' = [reqs EXCEPT ![r] = saved(@, Len(ledger'))]
  /\ UNCHANGED <<syncs, other, validated, sessions, users, now, workload>>

\* a query or the save fails in MongoDB: the catch of lines 980-988
StoreThrows(r) ==
  /\ reqs[r].pc \in LedgerPcs
  /\ reqs' = [reqs EXCEPT ![r] = [unexpectedError(@) EXCEPT !.error = "store"]]
  /\ UNCHANGED <<syncs, other, validated, ledger, sessions, users, now, workload>>

\* POST /api/student/attendance/sync arrives (attendanceRoutes.js:45)
SyncAttendance(y) ==
  /\ syncs[y].pc = "idle"
  /\ workload \notin {"concurrent", "auxiliary"}
  /\ workload = "sequential" => y = "y1" /\ \A r \in Reqs : reqs[r].pc = "idle"
  /\ workload = "mixed" => y = "y1"
  /\ \E studentId \in SyncCallers(workload), attendances \in Batches(workload) :
       syncs' = [syncs EXCEPT ![y] =
                   batchValidation([IdleSync EXCEPT !.studentId = studentId,
                                                    !.attendances = attendances])]
  /\ UNCHANGED <<reqs, other, validated, ledger, sessions, users, now, workload>>

\* the response has been sent, the slot serves the next sync request
SyncFinish(y) ==
  /\ syncs[y].pc = "done"
  /\ syncs' = [syncs EXCEPT ![y] = IdleSync]
  /\ UNCHANGED <<reqs, other, validated, ledger, sessions, users, now, workload>>

\* Attendance.findOne answers for the record the loop is at (lines 238-243)
SyncFindExisting(y) ==
  /\ syncs[y].pc = "findExisting"
  /\ LET q == syncs[y] IN
       syncs' = [syncs EXCEPT ![y] =
         existingChecked(q, findAttendance(ledger, q.studentId,
                                           recordAt(q).sessionId) # {})]
  /\ UNCHANGED <<reqs, other, validated, ledger, sessions, users, now, workload>>

\* newRecord.save() answers (lines 259-260): the document is stored, or it
\* fails the validation and the error is thrown to the catch
SyncSave(y) ==
  /\ syncs[y].pc = "save"
  /\ LET q == syncs[y] IN
       IF requiredPaths(newRecord(q))
       THEN /\ ledger' = save(ledger, newRecord(q))
            /\ syncs' = [syncs EXCEPT ![y] = recordSaved(q)]
       ELSE /\ ledger' = ledger
            /\ syncs' = [syncs EXCEPT ![y] =
                 [syncFailed(q, <<"Attendance validation failed">>) EXCEPT
                    !.error = "validation"]]
  /\ UNCHANGED <<reqs, other, validated, sessions, users, now, workload>>

\* findOne or save fails in MongoDB: the catch of lines 268-271
SyncStoreThrows(y) ==
  /\ syncs[y].pc \in {"findExisting", "save"}
  /\ syncs' = [syncs EXCEPT ![y] =
       [syncFailed(@, <<"MongoNetworkError">>) EXCEPT !.error = "store"]]
  /\ UNCHANGED <<reqs, other, validated, ledger, sessions, users, now, workload>>

\* validateQRCode that uses the token up: the session it finds is deactivated
ValidateQRCode_deactivates(studentId, token) ==
  /\ other.pc = "idle"
  /\ workload = "auxiliary"
  /\ LET found == findSessionByToken(token) IN
       \E session \in IF found = {} THEN {Null} ELSE found :
         LET res == validateQRCode(token, session) IN
           /\ other' = [IdleOther EXCEPT !.pc = "done", !.op = "validateQRCode",
                                         !.studentId = studentId, !.token = token,
                                         !.res = res]
           /\ validated' = IF res.valid
                            THEN validated \cup {<<studentId, res.classId>>}
                            ELSE validated
           /\ sessions' = IF res.valid
                           THEN [sessions EXCEPT ![session].isActive = FALSE]
                           ELSE sessions
  /\ UNCHANGED <<reqs, syncs, ledger, users, now, workload>>

\* POST /api/qr/validate is served (qrRoutes.js:16)
ValidateQRCode(studentId, token) ==
  /\ other.pc = "idle"
  /\ workload = "auxiliary"
  /\ LET found == findSessionByToken(token) IN
       \E session \in IF found = {} THEN {Null} ELSE found :
         LET res == validateQRCode(token, session) IN
           /\ other' = [IdleOther EXCEPT !.pc = "done", !.op = "validateQRCode",
                                         !.studentId = studentId, !.token = token,
                                         !.res = res]
           /\ validated' = IF res.valid
                            THEN validated \cup {<<studentId, res.classId>>}
                            ELSE validated
  /\ UNCHANGED <<reqs, syncs, ledger, sessions, users, now, workload>>

\* GET /api/qr/session/status/:classId is served (qrRoutes.js:25)
GetSessionStatus(studentId, classId) ==
  /\ other.pc = "idle"
  /\ workload = "auxiliary"
  /\ LET found == findActiveSession(classId) IN
       \E activeSession \in IF found = {} THEN {Null} ELSE found :
         other' = [IdleOther EXCEPT !.pc = "done", !.op = "getSessionStatus",
                                    !.studentId = studentId, !.classId = classId,
                                    !.res = getSessionStatus(activeSession)]
  /\ UNCHANGED <<reqs, syncs, validated, ledger, sessions, users, now, workload>>

\* GET /api/student/attendance/records is served: getMyAttendanceRecords,
\* attendanceController lines 280-312 (the other records and summary routes
\* read the collection in the same way)
GetMyAttendanceRecords(studentId) ==
  /\ other.pc = "idle"
  /\ workload = "auxiliary"
  /\ other' = [IdleOther EXCEPT
       !.pc = "done", !.op = "getMyAttendanceRecords", !.studentId = studentId,
       !.res = [OtherRes(200, <<"Records fetched successfully">>) EXCEPT
                  !.totalRecords =
                     Cardinality({i \in DOMAIN ledger : ledger[i].studentId = studentId})]]
  /\ UNCHANGED <<reqs, syncs, validated, ledger, sessions, users, now, workload>>

\* getLivenessChallenges, attendanceController lines 773-803: the types of
\* allChallenges, and the lists the handler can select: neutral, then the
\* first two of a shuffle of the other four
allChallenges == <<"neutral", "smile", "turn_left", "turn_right", "eyes_open">>

selectedChallenges ==
  {<<allChallenges[1], allChallenges[i], allChallenges[j]>> :
     <<i, j>> \in {p \in (2..5) \X (2..5) : p[1] # p[2]}}

\* GET /api/student/attendance/liveness/challenges is served; the list sent
\* is kept nowhere on the server
GetLivenessChallenges(studentId) ==
  /\ other.pc = "idle"
  /\ workload = "auxiliary"
  /\ \E selected \in selectedChallenges :
       other' = [IdleOther EXCEPT
         !.pc = "done", !.op = "getLivenessChallenges", !.studentId = studentId,
         !.res = [OtherRes(200, <<"Complete these challenges to verify your identity">>)
                    EXCEPT !.challenges = selected]]
  /\ UNCHANGED <<reqs, syncs, validated, ledger, sessions, users, now, workload>>

\* updateAttendance is served for the record id and the status of the body
UpdateAttendance(id, status) ==
  /\ other.pc = "idle"
  /\ workload = "auxiliary"
  /\ other' = [IdleOther EXCEPT !.pc = "done", !.op = "updateAttendance",
                                !.id = id, !.status = status,
                                !.res = updateAttendance(ledger, id, status)]
  /\ ledger' = IF statusValid(status) /\ id \in DOMAIN ledger
               THEN findByIdAndUpdate(ledger, id, [status |-> status])
               ELSE ledger
  /\ UNCHANGED <<reqs, syncs, validated, sessions, users, now, workload>>

\* a request to a protected route goes through protect
Protect(authorization) ==
  /\ other.pc = "idle"
  /\ workload = "auxiliary"
  /\ \E threw \in BOOLEAN :
       LET out == protect(authorization, DOMAIN users, threw) IN
         other' = [IdleOther EXCEPT !.pc = "done", !.op = "protect",
                                    !.authorization = authorization,
                                    !.studentId = out.user,
                                    !.responses = out.responses,
                                    !.nextCalls = out.nextCalls,
                                    !.error = IF threw THEN "store" ELSE Absent]
  /\ UNCHANGED <<reqs, syncs, validated, ledger, sessions, users, now, workload>>

\* the query of a request to one of the other routes fails in MongoDB: the
\* catch of the handler answers 500
OtherOps == {"validateQRCode", "getSessionStatus", "getMyAttendanceRecords",
             "updateAttendance"}

OtherStoreThrows(op) ==
  /\ other.pc = "idle"
  /\ workload = "auxiliary"
  /\ other' = [IdleOther EXCEPT !.pc = "done", !.op = op, !.error = "store",
                                !.res = OtherRes(500, <<"MongoNetworkError">>)]
  /\ UNCHANGED <<reqs, syncs, validated, ledger, sessions, users, now, workload>>

\* the response has been sent
OtherFinish ==
  /\ other.pc = "done"
  /\ other' = IdleOther
  /\ UNCHANGED <<reqs, syncs, validated, ledger, sessions, users, now, workload>>

\* PUT /api/student/users/profile/face: updateFaceImage, userController.js
\* lines 108-148, stores the key of the uploaded image
NewS3Key(studentId) == IF studentId = "s1" THEN "faces/s1-new.jpg" ELSE "faces/s2-new.jpg"

Uploads == Cardinality({s \in DOMAIN users : users[s].faceImageS3Key = NewS3Key(s)})

UpdateFaceImage(studentId) ==
  /\ studentId \in DOMAIN users
  /\ Uploads < MaxUploads
  /\ users[studentId].faceImageS3Key # NewS3Key(studentId)
  /\ users' = [users EXCEPT ![studentId].faceImageS3Key = NewS3Key(studentId)]
  /\ UNCHANGED <<reqs, syncs, other, validated, ledger, sessions, now, workload>>

\* time passes
Tick ==
  /\ now < MaxTime
  /\ now' = now + 1
  /\ UNCHANGED <<reqs, syncs, other, validated, ledger, sessions, users, workload>>

Next ==
  \/ \E r \in Reqs : Submit(r)
  \/ \E r \in Reqs : Finish(r)
  \/ \E r \in Reqs : FindSession(r)
  \/ \E r \in Reqs : FindExisting(r)
  \/ \E r \in Reqs : FindUser(r)
  \/ \E r \in Reqs : ChallengeReturns(r)
  \/ \E r \in Reqs : CompareDetectReturns(r)
  \/ \E r \in Reqs : CompareReturns(r)
  \/ \E r \in Reqs : OracleThrows(r)
  \/ \E r \in Reqs : OracleHangs(r)
  \/ \E r \in Reqs : Save(r)
  \/ \E r \in Reqs : StoreThrows(r)
  \/ \E y \in SyncReqs : SyncAttendance(y)
  \/ \E y \in SyncReqs : SyncFinish(y)
  \/ \E y \in SyncReqs : SyncFindExisting(y)
  \/ \E y \in SyncReqs : SyncSave(y)
  \/ \E y \in SyncReqs : SyncStoreThrows(y)
  \/ \E studentId \in {"s1", "s2"}, token \in Tokens : ValidateQRCode(studentId, token)
  \/ \E studentId \in {"s1", "s2"}, classId \in ClassIds :
       GetSessionStatus(studentId, classId)
  \/ \E studentId \in {"s1", "s2"} : GetMyAttendanceRecords(studentId)
  \/ \E id \in RecordIds, status \in Statuses : UpdateAttendance(id, status)
  \/ \E authorization \in Authorizations : Protect(authorization)
  \/ GetLivenessChallenges("s1")
  \/ \E op \in OtherOps : OtherStoreThrows(op)
  \/ OtherFinish
  \/ \E studentId \in Students : UpdateFaceImage(studentId)
  \/ Tick

Spec == Init /\ [][Next]_vars

----------------------------------------------------------------------------
(* Properties *)

\* the step is a step of the handler of slot r that is not its catch block
Handled(r) == reqs'[r] # reqs[r] /\ reqs'[r].error = Absent

RecordsOf(docs, studentId, sessionId) ==
  {i \in DOMAIN docs : docs[i].studentId = studentId /\ docs[i].sessionId = sessionId}

\* an active session that has not expired exists for the class
OpenSession(classId) ==
  \E s \in SessionIds : /\ sessions[s].classId = classId
                        /\ sessions[s].isActive
                        /\ now < sessions[s].sessionExpiresAt

FirstFailing(results) ==
  CHOOSE i \in DOMAIN results :
    ~results[i].passed /\ \A j \in 1..(i - 1) : results[j].passed

SomeFailed(results) == \E i \in DOMAIN results : ~results[i].passed

MsgNoSession == <<"No active attendance session. QR code may have expired.">>
MsgDuplicate == <<"Attendance already marked for this session.">>
MsgNoProfile == <<"No profile photo registered. Please upload your face photo first.">>
MsgUnexpected == <<"An unexpected error occurred. Please try again.">>

\* C1: the Ledger never holds two AttendanceRecords with the same studentId
\* and the same non-null sessionId, however the submissions interleave.
C1_Uniqueness ==
  \A i, j \in DOMAIN ledger :
    (/\ ledger[i].studentId = ledger[j].studentId
     /\ ledger[i].sessionId = ledger[j].sessionId
     /\ ledger[i].sessionId # Null) => i = j

\* C2: a submission whose Rekognition call threw or never answered, at any
\* of its stages, is over (answered or hanging), did not succeed, got no
\* record identifier, and the step that met the error wrote nothing.
C2_FailClosed ==
  [][\A r \in Reqs :
       (reqs'[r] # reqs[r] /\ reqs'[r].error \in {"oracle", "timeout"}) =>
         /\ reqs[r].pc \in OraclePcs
         /\ reqs'[r].pc \in {"done", "hung"}
         /\ ~reqs'[r].res.success
         /\ reqs'[r].res.status # 201
         /\ reqs'[r].res.attendanceId = 0
         /\ ledger' = ledger]_vars

\* C2 witness: one request got an error from CompareFaces and was answered
\* 500, another one hangs on a DetectFaces that never answered.
C2_Witness ==
  \E a, b \in Reqs :
    /\ reqs[a].error = "oracle" /\ reqs[a].res.status = 500
    /\ reqs[a].calls # << >> /\ reqs[a].calls[Len(reqs[a].calls)].op = "CompareFaces"
    /\ reqs[b].error = "timeout" /\ reqs[b].pc = "hung"
    /\ ledger = << >>

\* C3: a step of a submission never changes a session or a user; the step
\* that accepts the submission appends exactly one record, of the caller,
\* to the Ledger, and every other step leaves the Ledger as it is.
C3_AcceptOrNoEffect ==
  [][\A r \in Reqs :
       reqs'[r] # reqs[r] =>
         /\ sessions' = sessions
         /\ users' = users
         /\ IF reqs'[r].res.success
            THEN /\ Len(ledger') = Len(ledger) + 1
                 /\ SubSeq(ledger', 1, Len(ledger)) = ledger
                 /\ ledger'[Len(ledger')].studentId = reqs[r].studentId
                 /\ ledger'[Len(ledger')].sessionId = reqs[r].qrSession
            ELSE ledger' = ledger]_vars

\* C3 witness: one request was accepted, another was rejected by the
\* liveness check, and the Ledger holds the one record of the first.
C3_Witness ==
  \E a, b \in Reqs :
    /\ reqs[a].pc = "done" /\ reqs[a].res.status = 201
    /\ reqs[b].pc = "done" /\ reqs[b].res.reason = "LIVENESS_CHALLENGES_FAILED"
    /\ Len(ledger) = 1 /\ ledger[1].studentId = reqs[a].studentId

\* The duplicate check finds a record of the caller for the session: the
\* answer is 409 with the given reason field, before any Rekognition call.
DuplicateRejected(reason) ==
  \A r \in Reqs :
    (/\ reqs[r].pc = "findExisting"
     /\ Handled(r)
     /\ RecordsOf(ledger, reqs[r].studentId, reqs[r].qrSession) # {}) =>
       /\ reqs'[r].pc = "done"
       /\ reqs'[r].res = [Res(409, MsgDuplicate) EXCEPT !.reason = reason]
       /\ reqs'[r].calls = << >>
       /\ ledger' = ledger
       /\ workload = "sequential" =>
            Cardinality(RecordsOf(ledger', reqs[r].studentId, reqs[r].qrSession)) = 1

C5_RaceLoserRejected ==
  [][\A r \in Reqs :
       (/\ reqs[r].pc = "save"
        /\ Handled(r)
        /\ RecordsOf(ledger, reqs[r].studentId, reqs[r].qrSession) # {}) =>
          /\ ledger' = ledger
          /\ reqs'[r].res.status = 409]_vars


\* The preconditions in the order of the handler, each with the reason field
\* its answer is expected to carry.
PreconditionOrder(validation, noSession, duplicate, noProfile) ==
  \A r \in Reqs :
    LET q == reqs[r]
        q1 == reqs'[r]
        b == q1.body
        rejected(status, message, reason) ==
          /\ q1.pc = "done"
          /\ q1.res = [Res(status, message) EXCEPT !.reason = reason]
    IN
    /\ (q1.pc # "idle" /\ b.classId = Absent) =>
         rejected(400, <<"Class ID is required.">>, validation)
    /\ (/\ q1.pc # "idle" /\ b.classId # Absent
        /\ \/ ~b.studentCoordinates.present
           \/ b.studentCoordinates.latitude = 0
           \/ b.studentCoordinates.longitude = 0) =>
         rejected(400, <<"Student coordinates are required.">>, validation)
    /\ (/\ q1.pc # "idle" /\ b.classId # Absent
        /\ b.studentCoordinates.present
        /\ b.studentCoordinates.latitude # 0
        /\ b.studentCoordinates.longitude # 0
        /\ Len(b.challengeImages) < 2) =>
         rejected(400, <<"At least 2 challenge images are required.">>, validation)
    /\ (q.pc = "findSession" /\ Handled(r) /\ ~OpenSession(q.body.classId)) =>
         rejected(400, MsgNoSession, noSession)
    /\ (/\ q.pc = "findExisting" /\ Handled(r)
        /\ RecordsOf(ledger, q.studentId, q.qrSession) # {}) =>
         rejected(409, MsgDuplicate, duplicate)
    /\ (/\ q.pc = "findUser" /\ Handled(r)
        /\ q.studentId \in DOMAIN users
        /\ users[q.studentId].faceImageS3Key = Null) =>
         rejected(400, MsgNoProfile, noProfile)
    /\ q1.pc \in {"findSession", "findExisting", "findUser"} => q1.calls = << >>
    /\ (q1.pc = "done" /\ q1.qrSession = Absent) => q1.calls = << >>

NoSessionRejected(reason) ==
  \A r \in Reqs :
    /\ (reqs[r].pc = "findSession" /\ Handled(r)
        /\ ~OpenSession(reqs[r].body.classId)) =>
         /\ reqs'[r].pc = "done"
         /\ reqs'[r].res = [Res(400, MsgNoSession) EXCEPT !.reason = reason]
         /\ reqs'[r].calls = << >>
         /\ ledger' = ledger
    /\ (reqs'[r].pc = "done" /\ reqs'[r].res.message = MsgNoSession) =>
         /\ reqs'[r].calls = << >>
         /\ reqs'[r].qrSession = Absent
         /\ reqs'[r].res.attendanceId = 0

NoProfileRejected(reason) ==
  \A r \in Reqs :
    /\ (/\ reqs[r].pc = "findUser" /\ Handled(r)
        /\ reqs[r].studentId \in DOMAIN users
        /\ users[reqs[r].studentId].faceImageS3Key = Null) =>
         /\ reqs'[r].pc = "done"
         /\ reqs'[r].res = [Res(400, MsgNoProfile) EXCEPT !.reason = reason]
         /\ reqs'[r].calls = << >>
         /\ ledger' = ledger
    /\ reqs'[r].calls # << >> => reqs'[r].faceImageS3Key \notin {Null, Absent}

DetectCall(image) == [op |-> "DetectFaces", image |-> image]

ChallengeFailureReported(reason, prefix) ==
  \A r \in Reqs :
    LET q1 == reqs'[r]
        results == q1.challengeResults
        n == Len(q1.body.challengeImages)
    IN
    SomeFailed(results) =>
      /\ q1.pc \in {"challenge", "done", "hung"}
      /\ Len(q1.calls) <= n
      /\ \A i \in DOMAIN q1.calls : q1.calls[i].op = "DetectFaces"
      /\ ~q1.res.success
      /\ q1.res.attendanceId = 0
      /\ q1 # reqs[r] => ledger' = ledger
      /\ (q1.pc = "done" /\ q1.error = Absent) =>
           /\ Len(results) = n
           /\ q1.res.status = 400
           /\ q1.res.reason = reason
           /\ q1.res.message = prefix \o results[FirstFailing(results)].message
           /\ q1.res.challengeResults = results
      /\ Len(results) = n => q1.pc = "done"

CompareCalls(q) == {i \in DOMAIN q.calls : q.calls[i].op = "CompareFaces"}

\* C11: a request sends CompareFaces at most once, only when a result is
\* there for every submitted challenge and every one of them passed, after
\* all the detections, and for the last image of the submitted list.
C11_CompareAfterChallenges ==
  \A r \in Reqs :
    LET q == reqs[r]
        n == Len(q.body.challengeImages)
    IN /\ Cardinality(CompareCalls(q)) <= 1
       /\ \A i \in CompareCalls(q) :
            /\ i = Len(q.calls)
            /\ Len(q.challengeResults) = n
            /\ \A j \in 1..n : q.challengeResults[j].passed
            /\ \A j \in 1..(i - 1) : q.calls[j].op = "DetectFaces"
            /\ q.calls[i].image = q.body.challengeImages[n].image

\* C11 witness: every challenge of a list whose last image differs from its
\* first one passed and CompareFaces was sent.
C11_Witness ==
  \E r \in Reqs :
    LET q == reqs[r] IN
      /\ CompareCalls(q) # {}
      /\ Len(q.body.challengeImages) = 2
      /\ q.body.challengeImages[1].image # q.body.challengeImages[2].image
      /\ q.pc = "done"

\* A request that waited for CompareFaces and did not go on to save: nothing
\* is written and it is not accepted.  No match is the result FACE_NOT_MATCHED,
\* InvalidS3ObjectException the result PROFILE_IMAGE_NOT_FOUND,
\* InvalidParameterException the result INVALID_IMAGE; every other error is
\* answered transientStatus with transientReason.
ComparisonFailures(transientStatus, transientReason) ==
  \A r \in Reqs :
    (reqs[r].pc = "compareFaces" /\ reqs'[r] # reqs[r] /\ reqs'[r].pc # "save") =>
      LET q == reqs'[r] IN
      /\ ledger' = ledger
      /\ ~q.res.success /\ q.res.attendanceId = 0
      /\ q.pc \in {"done", "hung"}
      /\ q.pc = "hung" <=> q.error = "timeout"
      /\ q.error = Absent =>
           /\ ImageOf(reqs[r].calls[Len(reqs[r].calls)].image).Similarity
                < SIMILARITY_THRESHOLD
           /\ q.res.status = 400 /\ q.res.reason = "FACE_NOT_MATCHED"
      /\ q.errorName = "InvalidS3ObjectException" =>
           q.res.status = 400 /\ q.res.reason = "PROFILE_IMAGE_NOT_FOUND"
      /\ q.errorName = "InvalidParameterException" =>
           q.res.status = 400 /\ q.res.reason = "INVALID_IMAGE"
      /\ q.errorName = "ThrottlingException" =>
           /\ q.res.status = transientStatus /\ q.res.reason = transientReason
           /\ transientStatus = 500 => q.res.message = MsgUnexpected

\* C12: the failures of the comparison never lead to a record.  A similarity
\* below the threshold is answered 400 with reason FACE_NOT_MATCHED, a missing
\* reference image 400 with PROFILE_IMAGE_NOT_FOUND, an invalid image 400 with
\* INVALID_IMAGE; any other error of Rekognition is thrown to the handler's
\* catch and answered 500 with the generic message and no reason.
C12_ComparisonFailures == [][ComparisonFailures(500, Absent)]_vars

\* C12, as claimed: a transient failure is a result with reason ORACLE_ERROR.
C12_Original == [][ComparisonFailures(400, "ORACLE_ERROR")]_vars

\* C12 witness: CompareFaces threw ThrottlingException, the request was
\* answered 500 and the Ledger is empty.
C12_Witness ==
  \E r \in Reqs :
    LET q == reqs[r] IN
      /\ q.pc = "done" /\ q.errorName = "ThrottlingException"
      /\ q.calls # << >> /\ q.calls[Len(q.calls)].op = "CompareFaces"
      /\ q.res.status = 500 /\ q.res.reason = Absent
      /\ ledger = << >>

\* the value a stored document has at a path, Absent when it has none
Field(doc, path) == IF path \in DOMAIN doc THEN doc[path] ELSE Absent

\* C13: the step that accepts a submission stores one record with
\* status present, livenessPassed true, manualEntry false, the caller's
\* studentId, the session found for the class, and livenessConfidence and
\* faceSimilarity equal to the scores of this submission; the 201 response
\* carries the same scores and the _id of the new record.
C13_RecordContents ==
  [][\A r \in Reqs :
       (reqs'[r] # reqs[r] /\ reqs'[r].res.success) =>
         LET doc == ledger'[Len(ledger')]
             res == reqs'[r].res
             similarity == ImageOf(reqs[r].calls[Len(reqs[r].calls)].image).Similarity
         IN /\ Len(ledger') = Len(ledger) + 1
            /\ res.status = 201 /\ res.attendanceId = Len(ledger')
            /\ res.faceSimilarity = similarity
            /\ res.livenessScore = reqs[r].livenessScore
            /\ doc.studentId = reqs[r].studentId
            /\ doc.sessionId = reqs[r].qrSession
            /\ doc.livenessPassed = TRUE
            /\ doc.manualEntry = FALSE
            /\ Field(doc, "status") = "present"
            /\ Field(doc, "livenessConfidence") = res.livenessScore
            /\ Field(doc, "faceSimilarity") = similarity]_vars

\* C14: when CompareFaces answers, the face is taken for the student's
\* exactly when the similarity of the image is at least SIMILARITY_THRESHOLD:
\* then the request goes on to save with that similarity, otherwise it is
\* answered 400 with reason FACE_NOT_MATCHED and no similarity.
C14_ThresholdInclusive ==
  [][\A r \in Reqs :
       (reqs[r].pc = "compareFaces" /\ reqs'[r] # reqs[r] /\ reqs'[r].error = Absent) =>
         LET similarity == ImageOf(reqs[r].calls[Len(reqs[r].calls)].image).Similarity
             q == reqs'[r]
         IN IF similarity >= SIMILARITY_THRESHOLD
            THEN q.pc = "save" /\ q.similarity = similarity
            ELSE /\ q.pc = "done" /\ q.res.status = 400
                 /\ q.res.reason = "FACE_NOT_MATCHED"
                 /\ q.res.faceSimilarity = 0
                 /\ ledger' = ledger]_vars

\* C14 witness: a submission whose last image has a similarity equal to the
\* threshold was accepted with that similarity.
C14_Witness ==
  \E r \in Reqs :
    /\ reqs[r].res.success
    /\ reqs[r].res.faceSimilarity = SIMILARITY_THRESHOLD
    /\ Len(ledger) = 1

\* the outcome of a sync request for its record number i
SyncOutcome(q, i, status) ==
  /\ i \in DOMAIN q.syncResults
  /\ q.syncResults[i].sessionId = q.attendances[i].sessionId
  /\ q.syncResults[i].status = status

C16_FailureDoesNotAbortBatch ==
  \A y \in SyncReqs :
    (syncs[y].pc = "done" /\ Len(syncs[y].attendances) > 0) =>
      /\ Len(syncs[y].res.results) = Len(syncs[y].attendances)
      /\ \A i \in DOMAIN syncs[y].attendances :
           syncs[y].res.results[i].sessionId = syncs[y].attendances[i].sessionId

\* C17: where sync requests run together with each other or with a
\* submission of the same student, the Ledger holds at most one record for
\* every student and session.
C17_SyncKeepsUniqueness ==
  workload \in {"syncing", "mixed"} =>
    \A studentId \in Students, sessionId \in SessionIds :
      Cardinality(RecordsOf(ledger, studentId, sessionId)) <= 1

\* C18: where the client can have its QR token validated, a submission is
\* accepted only when validateQRCode has answered valid, for a token that
\* was the current token of an active session that had not expired, to the
\* caller for the class of the submission.
C18_TokenValidated ==
  [][workload = "auxiliary" =>
       \A r \in Reqs :
         (reqs'[r] # reqs[r] /\ reqs'[r].res.success) =>
           <<reqs[r].studentId, reqs[r].body.classId>> \in validated]_vars

\* C19: no step deletes a record.  A step of a request to verify, sync, the
\* records or the summary routes leaves every record as it is.  A step of
\* updateAttendance that answers 200 sets the status of the record of its id
\* to the requested status, one of present, absent and late, and nothing
\* else; otherwise it leaves every record as it is.
C19_RecordsImmutable ==
  [][/\ \A i \in DOMAIN ledger : i \in DOMAIN ledger'
     /\ \A i \in DOMAIN ledger :
          IF /\ other' # other /\ other'.op = "updateAttendance"
             /\ other'.res.status = 200 /\ other'.id = i
          THEN /\ other'.status \in {"present", "absent", "late"}
               /\ Field(ledger'[i], "status") = other'.status
               /\ \A path \in DOMAIN ledger[i] \ {"status"} :
                    ledger'[i][path] = ledger[i][path]
          ELSE ledger'[i] = ledger[i]]_vars

\* C20: a step of a submission, of a sync request, of validateQRCode or of
\* getSessionStatus leaves isActive, sessionExpiresAt and currentToken of
\* every session as they were, whatever the outcome of the step.
C20_SessionsReadOnly ==
  [][(\/ reqs' # reqs
      \/ syncs' # syncs
      \/ other' # other /\ other'.op \in {"validateQRCode", "getSessionStatus"}) =>
       \A q \in SessionIds :
         /\ sessions'[q].isActive = sessions[q].isActive
         /\ sessions'[q].sessionExpiresAt = sessions[q].sessionExpiresAt
         /\ sessions'[q].currentToken = sessions[q].currentToken]_vars

\* C20 witness: validateQRCode has answered valid for the token of q1, a
\* submission for its class has been accepted, and q1 is active with the
\* same token.
C20_Witness ==
  /\ other.pc = "done" /\ other.op = "validateQRCode" /\ other.res.valid
  /\ other.token = "t1"
  /\ \E r \in Reqs : reqs[r].res.success /\ reqs[r].qrSession = "q1"
  /\ sessions["q1"].isActive /\ sessions["q1"].currentToken = "t1"

\* the Rekognition calls of a request that have been answered
Answered(q) ==
  IF q.pc \in OraclePcs THEN Len(q.calls) - 1 ELSE Len(q.calls)

\* C21: a request waiting for Rekognition has exactly one call that has not
\* been answered.  While the challenges are evaluated, the calls sent are
\* the detections of the first images of the list, in the order of the list,
\* one more than there are results; a step sends at most one call and sends
\* it only when the call before it has been answered.
C21_OneCallAtATime ==
  [][\A r \in Reqs :
       LET q == reqs'[r] IN
       /\ q.pc = "challenge" =>
            /\ Len(q.calls) = Len(q.challengeResults) + 1
            /\ Len(q.calls) <= Len(q.body.challengeImages)
            /\ \A i \in DOMAIN q.calls :
                 /\ q.calls[i].op = "DetectFaces"
                 /\ q.calls[i].image = q.body.challengeImages[i].image
       /\ (reqs[r].pc \in OraclePcs /\ q.pc \in OraclePcs /\ q # reqs[r]) =>
            /\ Len(q.calls) = Len(reqs[r].calls) + 1
            /\ SubSeq(q.calls, 1, Len(reqs[r].calls)) = reqs[r].calls
            /\ Answered(q) = Answered(reqs[r]) + 1
       /\ (reqs[r].pc \notin OraclePcs /\ q.pc \in OraclePcs) => Len(q.calls) = 1]_vars

\* C21 witness: the detections of the first two of three different images
\* have been answered and the request waits for the third.
C21_Witness ==
  \E r \in Reqs :
    LET q == reqs[r] IN
      /\ q.pc = "challenge"
      /\ Len(q.body.challengeImages) = 3
      /\ Len(q.challengeResults) = 2 /\ Len(q.calls) = 3
      /\ q.body.challengeImages[1].image # q.body.challengeImages[2].image
      /\ q.body.challengeImages[2].image # q.body.challengeImages[3].image
      /\ q.calls[3].image = q.body.challengeImages[3].image

\* the gate of detectFaceWithAttributes an image fails, Absent when it
\* passes them all
GateOf(image) ==
  LET face == ImageOf(image) IN
  CASE face.FaceCount = 0 -> "NO_FACE_DETECTED"
    [] face.FaceCount > 1 -> "MULTIPLE_FACES"
    [] face.FaceCount = 1 /\ face.Confidence < MIN_FACE_CONFIDENCE -> "LOW_CONFIDENCE"
    [] face.FaceCount = 1 /\ face.Confidence >= MIN_FACE_CONFIDENCE
       /\ face.Brightness < 20 -> "LOW_BRIGHTNESS"
    [] face.FaceCount = 1 /\ face.Confidence >= MIN_FACE_CONFIDENCE
       /\ face.Brightness >= 20 /\ face.Sharpness < 20 -> "LOW_SHARPNESS"
    [] OTHER -> Absent

GateMessage(gate) ==
  CASE gate = "NO_FACE_DETECTED" ->
         <<"No face detected in the image. Please position your face clearly.">>
    [] gate = "MULTIPLE_FACES" ->
         <<"Multiple faces detected. Please ensure only your face is visible.">>
    [] gate = "LOW_CONFIDENCE" ->
         <<"Face not clearly visible. Please improve lighting and try again.">>
    [] gate = "LOW_BRIGHTNESS" -> <<"Image too dark. Please improve lighting.">>
    [] gate = "LOW_SHARPNESS" -> <<"Image blurry. Please hold steady and try again.">>

\* The result of a challenge whose image fails a gate is a failure with the
\* message of the gate, whatever the challenge would make of the image.  When
\* the loop ends without an error and the first failing challenge is one
\* whose image fails a gate, the request is answered 400, without a write,
\* with the reason of the gate (ownReason) or LIVENESS_CHALLENGES_FAILED and
\* the gate's message after "Liveness check failed: ".
GateFailureReported(ownReason) ==
  \A r \in Reqs :
    LET q == reqs'[r]
        n == Len(q.challengeResults)
    IN (reqs[r].pc = "challenge" /\ n = Len(reqs[r].challengeResults) + 1) =>
         LET gate == GateOf(q.body.challengeImages[n].image) IN
         /\ gate # Absent =>
              /\ ~q.challengeResults[n].passed
              /\ q.challengeResults[n].message = GateMessage(gate)
         /\ (q.pc = "done" /\ SomeFailed(q.challengeResults)) =>
              LET first == GateOf(q.body.challengeImages[
                                    FirstFailing(q.challengeResults)].image)
              IN first # Absent =>
                   /\ q.res.status = 400 /\ ~q.res.success
                   /\ ledger' = ledger
                   /\ IF ownReason
                      THEN q.res.reason = first
                      ELSE /\ q.res.reason = "LIVENESS_CHALLENGES_FAILED"
                           /\ q.res.message =
                                <<"Liveness check failed: ">> \o GateMessage(first)

PassedOf(q, challengeType) ==
  {i \in DOMAIN q.challengeResults :
     /\ q.challengeResults[i].challengeType = challengeType
     /\ q.challengeResults[i].passed}

\* C23: a smile challenge passes only on an image whose Smile value is true
\* with a confidence above 30, an eyes_open challenge only on an image whose
\* EyesOpen value is true with a confidence above 50.
C23_IndicatorAndConfidence ==
  \A r \in Reqs :
    /\ \A i \in PassedOf(reqs[r], "smile") :
         LET face == ImageOf(reqs[r].body.challengeImages[i].image) IN
           face.SmileValue /\ face.SmileConfidence > 30
    /\ \A i \in PassedOf(reqs[r], "eyes_open") :
         LET face == ImageOf(reqs[r].body.challengeImages[i].image) IN
           face.EyesOpenValue /\ face.EyesOpenConfidence > 50

\* C24: a neutral challenge passes only on an image whose yaw and pitch are
\* both within 20 degrees of straight ahead (the angle of the turn
\* challenges, lines 182 and 190).
C24_NeutralIsFrontal ==
  \A r \in Reqs :
    \A i \in PassedOf(reqs[r], "neutral") :
      LET face == ImageOf(reqs[r].body.challengeImages[i].image) IN
        /\ -20 < face.Yaw /\ face.Yaw < 20
        /\ -20 < face.Pitch /\ face.Pitch < 20

\* C25: the session is read once.  A request that is past its session check
\* is never answered that there is no active session, and the step of its
\* save that does not fail stores the record of the session found at the
\* check and answers 201, whether or not that session is still active and
\* unexpired.
C25_CommitWithoutRecheck ==
  [][\A r \in Reqs :
       (reqs'[r] # reqs[r] /\ reqs[r].pc \notin {"idle", "findSession", "done"}) =>
         /\ reqs'[r].res.message # MsgNoSession
         /\ (reqs[r].pc = "save" /\ reqs'[r].error = Absent) =>
              /\ reqs'[r].res.success /\ reqs'[r].res.status = 201
              /\ Len(ledger') = Len(ledger) + 1
              /\ ledger'[Len(ledger')].sessionId = reqs[r].qrSession]_vars

\* C25 witness: the request passed the session check before the session
\* expired; its record was made and stored after the expiry.
C25_Witness ==
  \E r \in Reqs :
    LET q == reqs[r] IN
      /\ q.res.success /\ q.res.attendanceId \in DOMAIN ledger
      /\ ledger[q.res.attendanceId].sessionId = q.qrSession
      /\ q.qrSession \in SessionIds
      /\ ledger[q.res.attendanceId].timestamp >= sessions[q.qrSession].sessionExpiresAt
      /\ ~OpenSession(q.body.classId)

\* C26: whatever the Authorization header, protect either calls next() once
\* with req.user set and sends nothing, or sends one 401 response and does
\* not call next().
C26_ProtectExactlyOnce ==
  (other.pc = "done" /\ other.op = "protect") =>
    \/ /\ other.nextCalls = 1 /\ other.studentId # Absent
       /\ Len(other.responses) = 0
    \/ /\ other.nextCalls = 0
       /\ Len(other.responses) = 1 /\ other.responses[1].status = 401

\* C27: every record of the Ledger that is not a manual entry has
\* livenessPassed = true.
C27_LivenessPassedUnlessManual ==
  \A i \in DOMAIN ledger : ~ledger[i].manualEntry => ledger[i].livenessPassed = TRUE

\* C28: the record a submission or a sync request stores has the studentId
\* of the caller of that request, whatever studentId the payload carries,
\* and a sync request skips a record only when a record of its caller for
\* that session is in the Ledger.
C28_RecordOfCaller ==
  [][/\ \A r \in Reqs :
          (reqs'[r] # reqs[r] /\ Len(ledger') > Len(ledger)) =>
            ledger'[Len(ledger')].studentId = reqs[r].studentId
     /\ \A y \in SyncReqs :
          /\ (syncs'[y] # syncs[y] /\ Len(ledger') > Len(ledger)) =>
               ledger'[Len(ledger')].studentId = syncs[y].studentId
          /\ (/\ Len(syncs'[y].syncResults) > Len(syncs[y].syncResults)
              /\ syncs'[y].syncResults[Len(syncs'[y].syncResults)].status = "skipped") =>
               RecordsOf(ledger, syncs[y].studentId,
                         syncs[y].attendances[Len(syncs'[y].syncResults)].sessionId) # {}]_vars

\* C28 witness: a sync request of s1 whose record names s2 was answered
\* success; the record stored is a record of s1 and s2 has none.
C28_Witness ==
  \E y \in SyncReqs :
    LET q == syncs[y] IN
      /\ q.pc = "done" /\ q.studentId = "s1" /\ Len(q.attendances) = 1
      /\ q.attendances[1].studentId = "s2"
      /\ SyncOutcome(q, 1, "success")
      /\ Len(ledger) = 1 /\ ledger[1].synced /\ ledger[1].studentId = "s1"

\* C30: every record of the Ledger is a record of a student for a class the
\* student is enrolled in, and the session of a record stored by a
\* submission is a session of the record's class.
C30_EnrolledOnly ==
  \A i \in DOMAIN ledger :
    /\ <<ledger[i].studentId, ledger[i].classId>> \in ClassEnrollment
    /\ ~ledger[i].synced => sessions[ledger[i].sessionId].classId = ledger[i].classId

\* the challenge types of the body of a request, in order
TypesSubmitted(q) ==
  [i \in DOMAIN q.body.challengeImages |-> q.body.challengeImages[i].challengeType]

\* C29: a submission is answered 201 only when the list of its challenge
\* types is a list getLivenessChallenges issues: neutral first, then two
\* distinct types other than neutral.
C29_IssuedChallengesOnly ==
  \A r \in Reqs :
    (reqs[r].pc = "done" /\ reqs[r].res.status = 201) =>
      TypesSubmitted(reqs[r]) \in selectedChallenges

====
